---- MODULE Spec2Model ----
(***************************************************************************)
(* Conversation context assembly and budgeting of the CorpoAI chat         *)
(* backend: ContextManager (app/clients/llm/context_manager.py), the       *)
(* budget value object (app/schemas/context.py) and the chat turn that     *)
(* drives them (app/services/chat.py).                                     *)
(*                                                                         *)
(* Text is a sequence of one-character strings, so that len(), slicing,    *)
(* split("\n") and strip() are computed on characters.  Python's None is   *)
(* the value None below (for text) and NoId (for a message id).            *)
(***************************************************************************)
EXTENDS Integers, Sequences, FiniteSets, TLC

VARIABLES cm, settings, llm, call, ext, db, turn, handed, calls, est, req, docs, gen

vars == <<cm, settings, llm, call, ext, db, turn, handed, calls, est, req, docs, gen>>

chatVars == <<db, turn, handed>>

\* the state only the other specifications of this module move
auxVars == <<calls, est, req, docs, gen>>

-----------------------------------------------------------------------------
(* Bounds of the model *)

MaxHist == 4          \* longest message sequence handed to the core
MaxKeepRecent == 2    \* largest configured keep_recent_messages
MaxAvailable == 8     \* largest max_context_tokens - reserved_output
MaxConcurrent == 2    \* build_context calls in flight on one ContextManager
MaxTextLen == 8       \* characters of a text whose tokens are estimated
MaxSessStored == 4    \* messages stored while sessions are read, updated and deleted
MaxUploads == 2       \* documents ever uploaded

-----------------------------------------------------------------------------
(* Python values *)

None == <<"None">>
NoId == 0

Truthy(text) == text # None /\ text # <<>>

NL == "\n"

USER == "user"
ASSISTANT == "assistant"
SYSTEM == "system"

Min(a, b) == IF a < b THEN a ELSE b

\* s[lo+1 .. hi] clipped to the sequence: Python's s[lo:hi] for 0 <= lo
Slice(s, lo, hi) == SubSeq(s, lo + 1, Min(hi, Len(s)))

\* Python's s[:-k] and s[-k:] for k >= 0 (note -0 = 0: s[:0] and s[0:])
AllButLast(s, k) == IF k = 0 THEN <<>> ELSE Slice(s, 0, Len(s) - k)
LastK(s, k) == IF k = 0 THEN s ELSE Slice(s, Len(s) - k, Len(s))

LLMMessage(role, content) == [role |-> role, content |-> content]

-----------------------------------------------------------------------------
(* Literal strings of context_manager.py *)

SUMMARY_HEADER == <<"[","C","o","n","v","e","r","s","a","t","i","o","n"," ","s","u","m","m","a","r","y","]","\n">>
RAG_HEADER == <<"[","D","o","c","u","m","e","n","t"," ","c","o","n","t","e","x","t","]","\n">>
PREV_SUMMARY_LABEL == <<"[","P","r","e","v","i","o","u","s"," ","s","u","m","m","a","r","y","]",":"," ">>
CONVERSATION_LABEL == <<"[","C","o","n","v","e","r","s","a","t","i","o","n","]",":">>
USER_LABEL == <<"U","s","e","r",":"," ">>
ASSISTANT_LABEL == <<"A","s","s","i","s","t","a","n","t",":"," ">>
TEMAS == <<"T","e","m","a","s",":"," ">>
TOPIC_SEP == <<";"," ">>
SUMMARY_SEP == <<" ","|"," ">>
TOPIC_CAP == 80
MAX_TOPICS == 3
RESERVED_OUTPUT_DEFAULT == 1024
KEEP_RECENT_DEFAULT == 6

-----------------------------------------------------------------------------
(* Token estimation and budget *)

\* an estimate that rounds up
_estimate_tokens_ceil(c, text) ==
    IF Truthy(text)
    THEN (Len(text) * c.tokens_per_char[1] + c.tokens_per_char[2] - 1) \div c.tokens_per_char[2]
    ELSE 0

\* int(len(text) * tokens_per_char) if text else 0; the ratio is num/den
_estimate_tokens(c, text) ==
    IF Truthy(text) THEN (Len(text) * c.tokens_per_char[1]) \div c.tokens_per_char[2] ELSE 0

MessageCost(c, st, msg) == _estimate_tokens(c, msg.content) + st.MESSAGE_OVERHEAD_TOKENS

RECURSIVE SumCost(_, _, _)
SumCost(c, st, msgs) ==
    IF msgs = <<>> THEN 0 ELSE MessageCost(c, st, Head(msgs)) + SumCost(c, st, Tail(msgs))

\* a budget that charges the overhead for an empty summary as well
_calculate_budget_empty_summary(c, st, l, history, new_message, summary, rag_context) ==
    [max_tokens           |-> c.max_tokens,
     reserved_output      |-> c.reserved_output,
     system_prompt_tokens |-> _estimate_tokens(c, l.system_prompt),
     history_tokens       |-> SumCost(c, st, history),
     new_message_tokens   |-> _estimate_tokens(c, new_message) + st.MESSAGE_OVERHEAD_TOKENS,
     summary_tokens       |-> IF summary # None
                              THEN _estimate_tokens(c, summary) + st.MESSAGE_OVERHEAD_TOKENS
                              ELSE 0,
     rag_context_tokens   |-> IF Truthy(rag_context)
                              THEN _estimate_tokens(c, rag_context) + st.MESSAGE_OVERHEAD_TOKENS
                              ELSE 0,
     tools_tokens         |-> 0]

_calculate_budget(c, st, l, history, new_message, summary, rag_context) ==
    [max_tokens           |-> c.max_tokens,
     reserved_output      |-> c.reserved_output,
     system_prompt_tokens |-> _estimate_tokens(c, l.system_prompt),
     history_tokens       |-> SumCost(c, st, history),
     new_message_tokens   |-> _estimate_tokens(c, new_message) + st.MESSAGE_OVERHEAD_TOKENS,
     summary_tokens       |-> IF Truthy(summary)
                              THEN _estimate_tokens(c, summary) + st.MESSAGE_OVERHEAD_TOKENS
                              ELSE 0,
     rag_context_tokens   |-> IF Truthy(rag_context)
                              THEN _estimate_tokens(c, rag_context) + st.MESSAGE_OVERHEAD_TOKENS
                              ELSE 0,
     tools_tokens         |-> 0]

available_for_input(b) == b.max_tokens - b.reserved_output

total_used(b) ==
    b.system_prompt_tokens + b.summary_tokens + b.history_tokens
        + b.new_message_tokens + b.rag_context_tokens + b.tools_tokens

is_over_budget(b) == total_used(b) > available_for_input(b)

-----------------------------------------------------------------------------
(* Extraction of the messages after the summary pointer *)

\* index of the first message whose id is the pointer, 0 when there is none
RECURSIVE FirstIndexOf(_, _, _)
FirstIndexOf(all_messages, id, i) ==
    IF i > Len(all_messages) THEN 0
    ELSE IF all_messages[i].id = id THEN i
    ELSE FirstIndexOf(all_messages, id, i + 1)

\* an extraction that keeps the message the pointer is on
extract_unsummarized_inclusive(all_messages, summary_up_to_id) ==
    LET found == IF summary_up_to_id # NoId THEN FirstIndexOf(all_messages, summary_up_to_id, 1) ELSE 0
        messages == IF found # 0 THEN Slice(all_messages, found - 1, Len(all_messages)) ELSE all_messages
    IN [messages    |-> [i \in 1..Len(messages) |-> LLMMessage(messages[i].role, messages[i].content)],
        message_ids |-> [i \in 1..Len(messages) |-> messages[i].id]]

\* an extraction that returns nothing when the pointer is on no message
extract_unsummarized_drop_missing(all_messages, summary_up_to_id) ==
    LET found == IF summary_up_to_id # NoId THEN FirstIndexOf(all_messages, summary_up_to_id, 1) ELSE 0
        messages == IF found # 0 THEN Slice(all_messages, found, Len(all_messages))
                    ELSE IF summary_up_to_id # NoId THEN <<>> ELSE all_messages
    IN [messages    |-> [i \in 1..Len(messages) |-> LLMMessage(messages[i].role, messages[i].content)],
        message_ids |-> [i \in 1..Len(messages) |-> messages[i].id]]

extract_unsummarized(all_messages, summary_up_to_id) ==
    LET found == IF summary_up_to_id # NoId THEN FirstIndexOf(all_messages, summary_up_to_id, 1) ELSE 0
        messages == IF found # 0 THEN Slice(all_messages, found, Len(all_messages)) ELSE all_messages
    IN [messages    |-> [i \in 1..Len(messages) |-> LLMMessage(messages[i].role, messages[i].content)],
        message_ids |-> [i \in 1..Len(messages) |-> messages[i].id]]

-----------------------------------------------------------------------------
(* Reduction helpers *)

\* walk from the newest message, stop at the first one that does not fit
RECURSIVE FitFrom(_, _, _, _, _, _)
FitFrom(c, st, messages, available, i, used) ==
    IF i = 0 THEN <<>>
    ELSE LET tokens == MessageCost(c, st, messages[i])
         IN IF used + tokens > available THEN <<>>
            ELSE Append(FitFrom(c, st, messages, available, i - 1, used + tokens), messages[i])

\* a fit that forgets the per-message overhead
_fit_to_budget_no_overhead(c, st, messages, available) ==
    FitFrom(c, [st EXCEPT !.MESSAGE_OVERHEAD_TOKENS = 0], messages, available, Len(messages), 0)

_fit_to_budget(c, st, messages, available) ==
    FitFrom(c, st, messages, available, Len(messages), 0)

\* an assembly that injects the document context before the summary
_assemble_messages_rag_first(history, summary, rag_context) ==
    (IF Truthy(rag_context) THEN <<LLMMessage(SYSTEM, RAG_HEADER \o rag_context)>> ELSE <<>>)
        \o (IF Truthy(summary) THEN <<LLMMessage(SYSTEM, SUMMARY_HEADER \o summary)>> ELSE <<>>)
        \o history

_assemble_messages(history, summary, rag_context) ==
    (IF Truthy(summary) THEN <<LLMMessage(SYSTEM, SUMMARY_HEADER \o summary)>> ELSE <<>>)
        \o (IF Truthy(rag_context) THEN <<LLMMessage(SYSTEM, RAG_HEADER \o rag_context)>> ELSE <<>>)
        \o history

\* a call self._assemble_messages(*args): the method takes exactly
\* (history, summary, rag_context); any other number of positional
\* arguments is a TypeError raised at the call
Call_assemble_messages(args) ==
    IF Len(args) = 3
    THEN [raised |-> FALSE, value |-> _assemble_messages(args[1], args[2], args[3])]
    ELSE [raised |-> TRUE, value |-> "TypeError"]

-----------------------------------------------------------------------------
(* Summary generation *)

RECURSIVE Join(_, _)
Join(parts, sep) ==
    IF parts = <<>> THEN <<>>
    ELSE IF Len(parts) = 1 THEN Head(parts)
    ELSE Head(parts) \o sep \o Join(Tail(parts), sep)

RECURSIVE SelectUser(_)
SelectUser(messages) ==
    IF messages = <<>> THEN <<>>
    ELSE IF Head(messages).role = USER THEN <<Head(messages)>> \o SelectUser(Tail(messages))
    ELSE SelectUser(Tail(messages))

\* content.split("\n")[0]
RECURSIVE FirstLine(_)
FirstLine(text) ==
    IF text = <<>> \/ Head(text) = NL THEN <<>> ELSE <<Head(text)>> \o FirstLine(Tail(text))

IsSpace(ch) == ch \in {" ", NL}

RECURSIVE LStrip(_)
LStrip(text) == IF text # <<>> /\ IsSpace(Head(text)) THEN LStrip(Tail(text)) ELSE text

RECURSIVE RStrip(_)
RStrip(text) ==
    IF text # <<>> /\ IsSpace(text[Len(text)]) THEN RStrip(SubSeq(text, 1, Len(text) - 1)) ELSE text

Strip(text) == RStrip(LStrip(text))

PROMPT_RULE == <<NL, NL, "-", "-", "-", NL, NL>>

\* the prompt _generate_summary sends to llm.generate
SummaryPrompt(l, messages, existing) ==
    LET parts == (IF Truthy(existing) THEN <<PREV_SUMMARY_LABEL \o existing \o <<NL>>>> ELSE <<>>)
                 \o <<CONVERSATION_LABEL>>
                 \o [i \in 1..Len(messages) |->
                        (IF messages[i].role = USER THEN USER_LABEL ELSE ASSISTANT_LABEL)
                            \o messages[i].content]
    IN l.summarizer_prompt \o PROMPT_RULE \o Join(parts, <<NL>>)

\* the except branch of _generate_summary
FallbackSummary_all_roles(messages, existing) ==
    LET user_topics == [i \in 1..Len(messages) |-> Slice(FirstLine(messages[i].content), 0, TOPIC_CAP)]
        fallback == IF user_topics # <<>>
                    THEN TEMAS \o Join(Slice(user_topics, 0, MAX_TOPICS), TOPIC_SEP)
                    ELSE <<>>
    IN IF Truthy(existing) THEN existing \o SUMMARY_SEP \o fallback ELSE fallback

FallbackSummary(messages, existing) ==
    LET users == SelectUser(messages)
        user_topics == [i \in 1..Len(users) |-> Slice(FirstLine(users[i].content), 0, TOPIC_CAP)]
        fallback == IF user_topics # <<>>
                    THEN TEMAS \o Join(Slice(user_topics, 0, MAX_TOPICS), TOPIC_SEP)
                    ELSE <<>>
    IN IF Truthy(existing) THEN existing \o SUMMARY_SEP \o fallback ELSE fallback

-----------------------------------------------------------------------------
(* Results and frames of build_context *)

ContextResult(messages, budget, needs_summary_update, new_summary, summary_up_to_message_id) ==
    [kind |-> "ContextResult",
     messages |-> messages,
     budget |-> budget,
     needs_summary_update |-> needs_summary_update,
     new_summary |-> new_summary,
     summary_up_to_message_id |-> summary_up_to_message_id]

Raised(exc) == [kind |-> "raise", exc |-> exc]

NoResult == [kind |-> "none"]

\* ContextResult(messages=self._assemble_messages(...), ...): the keyword
\* arguments are evaluated in order, so a raising first argument ends the call
ReturnOrRaise(assembled, budget, needs_summary_update, new_summary, summary_up_to_message_id) ==
    IF assembled.raised
    THEN Raised(assembled.value)
    ELSE ContextResult(assembled.value, budget, needs_summary_update, new_summary,
                       summary_up_to_message_id)

NoBudget == [none |-> TRUE]

IdleCall ==
    [pc |-> "idle", unsummarized |-> [messages |-> <<>>, message_ids |-> <<>>],
     new_message |-> <<>>, current_summary |-> None, rag_context |-> None,
     budget |-> NoBudget, path |-> "none", available |-> 0, fitted |-> <<>>,
     to_summarize |-> <<>>, recent |-> <<>>, ids_summarized |-> <<>>,
     prompt |-> None, llm_calls |-> 0, llm_failed |-> FALSE,
     new_summary |-> None, result |-> NoResult]

\* build_context up to its return, its raise or its first suspension
StartBuildContext(c, st, l, unsummarized, new_message, current_summary, rag_context) ==
    LET history == unsummarized.messages
        message_ids == unsummarized.message_ids
        budget == _calculate_budget(c, st, l, history, new_message, current_summary, rag_context)
        base == [IdleCall EXCEPT !.unsummarized = unsummarized, !.new_message = new_message,
                                 !.current_summary = current_summary,
                                 !.rag_context = rag_context, !.budget = budget]
        min_for_summary == c.keep_recent + 2
    IN IF ~is_over_budget(budget)
       THEN [base EXCEPT !.pc = "returned", !.path = "within",
                !.result = ReturnOrRaise(
                    Call_assemble_messages(<<history, current_summary, rag_context>>),
                    budget, FALSE, None, NoId)]
       ELSE IF Len(history) < min_for_summary
       THEN LET available == available_for_input(budget) - budget.system_prompt_tokens
                                 - budget.summary_tokens - budget.new_message_tokens
                                 - budget.rag_context_tokens
                fitted == _fit_to_budget(c, st, history, available)
                res == ReturnOrRaise(
                           Call_assemble_messages(<<fitted, new_message, current_summary, rag_context>>),
                           budget, FALSE, None, NoId)
            IN [base EXCEPT !.pc = IF res.kind = "raise" THEN "raised" ELSE "returned",
                            !.path = "truncate", !.available = available,
                            !.fitted = fitted, !.result = res]
       ELSE LET keep == Min(c.keep_recent, Len(history) - 2)
            IN [base EXCEPT !.pc = "await_generate", !.path = "summarize",
                            !.to_summarize = AllButLast(history, keep),
                            !.recent = LastK(history, keep),
                            !.ids_summarized = AllButLast(message_ids, keep),
                            !.prompt = SummaryPrompt(l, AllButLast(history, keep), current_summary),
                            !.llm_calls = 1]

\* a reduction that keeps the split in fields of the manager: after the
\* suspension it reads what another call in flight has stored there
FinishReduce_shared_split(c, st, l, f, new_summary, failed) ==
    LET inflight == {s \in DOMAIN calls : /\ calls[s].frame.pc = "await_generate"
                                          /\ calls[s].frame # f}
        seen == IF inflight = {} THEN f ELSE calls[CHOOSE s \in inflight : TRUE].frame
        res == ReturnOrRaise(
                   Call_assemble_messages(<<seen.recent, f.new_message, new_summary, f.rag_context>>),
                   _calculate_budget(c, st, l, seen.recent, f.new_message, new_summary, f.rag_context),
                   TRUE, new_summary,
                   IF seen.ids_summarized # <<>> THEN seen.ids_summarized[Len(seen.ids_summarized)]
                   ELSE NoId)
    IN [f EXCEPT !.pc = IF res.kind = "raise" THEN "raised" ELSE "returned",
                 !.recent = seen.recent, !.ids_summarized = seen.ids_summarized,
                 !.new_summary = new_summary, !.llm_failed = failed, !.result = res]

\* _reduce_context from the value of _generate_summary to its end
FinishReduce(c, st, l, f, new_summary, failed) ==
    LET res == ReturnOrRaise(
                   Call_assemble_messages(<<f.recent, f.new_message, new_summary, f.rag_context>>),
                   _calculate_budget(c, st, l, f.recent, f.new_message, new_summary, f.rag_context),
                   TRUE, new_summary,
                   IF f.ids_summarized # <<>> THEN f.ids_summarized[Len(f.ids_summarized)] ELSE NoId)
    IN [f EXCEPT !.pc = IF res.kind = "raise" THEN "raised" ELSE "returned",
                 !.new_summary = new_summary, !.llm_failed = failed, !.result = res]

-----------------------------------------------------------------------------
(* Inputs of the model *)

\* stored messages differ in role, in length and in their first line
MessagePool ==
    { LLMMessage(USER, <<"a","b">>),
      LLMMessage(ASSISTANT, <<>>),
      LLMMessage(USER, <<"a",NL,"b","c","d">>) }

RECURSIVE SeqsUpTo(_, _)
SeqsUpTo(S, n) ==
    IF n = 0 THEN {<<>>}
    ELSE LET shorter == SeqsUpTo(S, n - 1)
         IN shorter \cup {Append(h, m) : h \in {x \in shorter : Len(x) = n - 1}, m \in S}

Histories == SeqsUpTo(MessagePool, MaxHist)

\* message ids are UUIDs: distinct, in no relation to the creation order
IdAt(i) == ((i * 5) % 13) + 1

IdsOf(n) == [i \in 1..n |-> IdAt(i)]

StoredMessages(h) == [i \in 1..Len(h) |-> [id |-> IdAt(i), role |-> h[i].role, content |-> h[i].content]]

NewMessages == {<<>>, <<"h","e","y","!">>}
Summaries == {None, <<>>, <<"s","1">>}
RagContexts == {None, <<>>, <<"r","a","g",".">>}
LLMTexts == {<<"s","u","m">>, <<" ","s","2",NL>>, <<" ">>}
SystemPrompts == {<<>>, <<"s","y","s","!">>}
Pointers == {NoId} \cup {IdAt(i) : i \in 1..(MaxHist + 1)}

ReservedOutput == 1
MaxOverhead == 1

Configs ==
    [max_tokens : {ReservedOutput + a : a \in {2, 5, MaxAvailable}},
     reserved_output : {ReservedOutput},
     tokens_per_char : {<<1, 2>>},
     keep_recent : 0..MaxKeepRecent]

-----------------------------------------------------------------------------
(* Sessions and messages as the repositories store them *)

NoSession == 0
NoUser == 0

DEFAULT_SESSION_TITLE == <<"N","e","w"," ","C","h","a","t">>
ELLIPSIS == <<".",".",".">>
TITLE_CAP == 50

\* sessions[i] is the session with id i; messages are in creation order;
\* deleted holds the ids of the sessions whose row was deleted (ids are never
\* used again), their messages going with them (ON DELETE CASCADE)
EmptyDb == [sessions |-> <<>>, messages |-> <<>>, deleted |-> {}]

SessionRow(user_id, title) ==
    [user_id |-> user_id, title |-> title, summary |-> None, summary_up_to_message_id |-> NoId]

sessions_create(d, user_id, title) ==
    [d EXCEPT !.sessions = Append(@, SessionRow(user_id, title))]

sessions_exists(d, session_id) ==
    session_id \in DOMAIN d.sessions /\ session_id \notin d.deleted

\* the row a lookup by id and user returns, if any
get_by_id_and_user(d, session_id, user_id) ==
    sessions_exists(d, session_id) /\ d.sessions[session_id].user_id = user_id

sessions_delete(d, session_id) == [d EXCEPT !.deleted = @ \cup {session_id}]

messages_create(d, session_id, role, content) ==
    [d EXCEPT !.messages =
        Append(@, [id |-> IdAt(Len(@) + 1), session_id |-> session_id,
                   role |-> role, content |-> content])]

get_by_session(d, session_id) ==
    SelectSeq(d.messages, LAMBDA m : m.session_id = session_id /\ session_id \notin d.deleted)

count_by_session(d, session_id) == Len(get_by_session(d, session_id))

update_summary(d, session_id, summary, summary_up_to_message_id) ==
    IF sessions_exists(d, session_id)
    THEN [d EXCEPT !.sessions[session_id].summary = summary,
                   !.sessions[session_id].summary_up_to_message_id = summary_up_to_message_id]
    ELSE d

\* an update that writes the title into the summary column
update_title_summary_column(d, session_id, title) ==
    IF sessions_exists(d, session_id)
    THEN [d EXCEPT !.sessions[session_id].summary = title]
    ELSE d

update_title(d, session_id, title) ==
    IF sessions_exists(d, session_id)
    THEN [d EXCEPT !.sessions[session_id].title = title]
    ELSE d

-----------------------------------------------------------------------------
(* A chat turn: ChatService.send_message inside one unit of work *)

NoPayload == [session_id |-> NoSession, user_id |-> NoUser, content |-> <<>>]

\* tx is the database as the open transaction sees it
IdleTurn ==
    [pc |-> "idle", payload |-> NoPayload, session_id |-> NoSession, tx |-> EmptyDb,
     chat_messages |-> <<>>, exc |-> "none", db_session |-> "none"]

\* __aexit__ with an exception: rollback, the session is closed and the
\* exception goes to the caller
RolledBack(t, exc) == [t EXCEPT !.pc = "rolled_back", !.exc = exc, !.db_session = "closed"]

\* payload.content[:50].strip() + ("..." if len(payload.content) > 50 else "")
AutoTitle(content) ==
    Strip(Slice(content, 0, TITLE_CAP)) \o (IF Len(content) > TITLE_CAP THEN ELLIPSIS ELSE <<>>)

\* a turn that appends the submitted message to the list of the context
TurnAfterContext_appends_new_message(t, c) ==
    IF c.result.kind = "raise"
    THEN RolledBack(t, c.result.exc)
    ELSE [t EXCEPT !.pc = "await_chat",
                   !.tx = IF c.result.needs_summary_update
                          THEN update_summary(t.tx, t.session_id, c.result.new_summary,
                                              c.result.summary_up_to_message_id)
                          ELSE t.tx,
                   !.chat_messages = Append(c.result.messages,
                                            LLMMessage(USER, t.payload.content))]

\* send_message from the value or exception of build_context to the await
\* of llm.chat
TurnAfterContext(t, c) ==
    IF c.result.kind = "raise"
    THEN RolledBack(t, c.result.exc)
    ELSE [t EXCEPT !.pc = "await_chat",
                   !.tx = IF c.result.needs_summary_update
                          THEN update_summary(t.tx, t.session_id, c.result.new_summary,
                                              c.result.summary_up_to_message_id)
                          ELSE t.tx,
                   !.chat_messages = c.result.messages]

\* send_message from the response of llm.chat to the commit
TurnAfterChat(t, content) ==
    LET saved == messages_create(t.tx, t.session_id, ASSISTANT, content)
        titled == IF count_by_session(saved, t.session_id) = 2
                  THEN update_title(saved, t.session_id, AutoTitle(t.payload.content))
                  ELSE saved
    IN [t EXCEPT !.pc = "committed", !.tx = titled, !.db_session = "closed"]

\* an exit that commits whatever the block has flushed, raised or not
UnitOfWork_aexit_no_rollback(d, t) == t.tx

\* UnitOfWork.__aexit__: the database once the block of a turn has ended,
\* committed if the block raised nothing and rolled back otherwise
UnitOfWork_aexit(d, t) == IF t.exc = "none" THEN t.tx ELSE d

\* the database after a step of a turn: nothing is visible before the exit
Persisted(d, t) ==
    IF t.pc \in {"committed", "rolled_back"} THEN UnitOfWork_aexit(d, t) ELSE d

-----------------------------------------------------------------------------
(* Session reads, updates and deletes: SessionService and                  *)
(* ChatService.get_session_history, each inside one unit of work.  The     *)
(* caller is the User the route's permission dependency hands over, or     *)
(* NoCaller for None.                                                      *)

NoCaller == [sub |-> NoUser, is_superuser |-> FALSE]
Callers == {NoCaller} \cup [sub : {1, 2}, is_superuser : BOOLEAN]

NoLimit == 0
NotFoundError == Raised("NotFoundError")

\* a superuser passes for the owner of every session
_get_session_with_access_check_superuser(d, session_id, user) ==
    IF ~sessions_exists(d, session_id) THEN NotFoundError
    ELSE IF d.sessions[session_id].user_id = NoUser THEN [kind |-> "Session", id |-> session_id]
    ELSE IF user = NoCaller THEN NotFoundError
    ELSE IF d.sessions[session_id].user_id # user.sub /\ ~user.is_superuser THEN NotFoundError
    ELSE [kind |-> "Session", id |-> session_id]

_get_session_with_access_check(d, session_id, user) ==
    IF ~sessions_exists(d, session_id) THEN NotFoundError
    ELSE IF d.sessions[session_id].user_id = NoUser THEN [kind |-> "Session", id |-> session_id]
    ELSE IF user = NoCaller THEN NotFoundError
    ELSE IF d.sessions[session_id].user_id # user.sub THEN NotFoundError
    ELSE [kind |-> "Session", id |-> session_id]

SessionResponse(d, session_id) ==
    [kind |-> "SessionResponse", id |-> session_id,
     user_id |-> d.sessions[session_id].user_id, title |-> d.sessions[session_id].title]

SessionInfo(d, session_id) ==
    [kind |-> "SessionInfo", id |-> session_id,
     user_id |-> d.sessions[session_id].user_id, title |-> d.sessions[session_id].title,
     message_count |-> count_by_session(d, session_id)]

\* get_messages: the first limit messages, all of them without a limit
get_messages(d, session_id, limit) ==
    LET all == get_by_session(d, session_id)
    IN IF limit = NoLimit THEN all ELSE Slice(all, 0, limit)

SessionHistory(d, session_id, limit) ==
    [kind |-> "SessionHistory", session_id |-> session_id,
     title |-> d.sessions[session_id].title,
     message_count |-> count_by_session(d, session_id),
     messages |-> get_messages(d, session_id, limit)]

\* each service operation gives the database it leaves and its value or
\* exception; an exception leaves the unit of work by rollback
SessionService_get_by_id(d, session_id, user) ==
    LET session == _get_session_with_access_check(d, session_id, user)
    IN [db |-> d,
        result |-> IF session.kind = "raise" THEN session ELSE SessionInfo(d, session_id)]

SessionService_update(d, session_id, user, payload) ==
    LET session == _get_session_with_access_check(d, session_id, user)
        updated == IF payload.title # None THEN update_title(d, session_id, payload.title) ELSE d
    IN IF session.kind = "raise" THEN [db |-> d, result |-> session]
       ELSE [db |-> updated, result |-> SessionResponse(updated, session_id)]

SessionService_delete(d, session_id, user) ==
    LET session == _get_session_with_access_check(d, session_id, user)
        deleted == sessions_exists(d, session_id)
    IN IF session.kind = "raise" THEN [db |-> d, result |-> session]
       ELSE IF ~deleted THEN [db |-> d, result |-> NotFoundError]
       ELSE [db |-> sessions_delete(d, session_id), result |-> [kind |-> "bool", value |-> TRUE]]

get_session_history(d, session_id, user, limit) ==
    LET exists == sessions_exists(d, session_id)
        owned == exists /\ d.sessions[session_id].user_id # NoUser
        refused ==
            IF user # NoCaller
            THEN IF user.is_superuser
                 THEN owned /\ d.sessions[session_id].user_id # user.sub
                 ELSE ~get_by_id_and_user(d, session_id, user.sub)
            ELSE owned
    IN [db |-> d,
        result |-> IF refused \/ ~exists THEN NotFoundError
                   ELSE SessionHistory(d, session_id, limit)]

-----------------------------------------------------------------------------
(* Concurrent build_context calls on one ContextManager.  Each call is a   *)
(* coroutine with its own frame; the only suspension point is the await of *)
(* llm.generate in _generate_summary.  reply is what the LLM client gave   *)
(* the call, alone whether no other call took a step while it was in       *)
(* flight.                                                                 *)

NoReply == <<"None">>
FailedReply == <<"raise">>

IdleTask == [frame |-> IdleCall, reply |-> NoReply, alone |-> TRUE]

IdleCalls == [s \in 1..MaxConcurrent |-> IdleTask]

\* no token estimate asked, no service request in progress, nothing stored
NoEstimate == [pc |-> "idle"]
\* no _generate_summary call made on its own yet
NoGenerate == [pc |-> "idle", messages |-> <<>>, existing |-> None, result |-> None]

NoRequest == [pc |-> "idle"]

\* documents: the document records, by id; chunks: the chunks in the vector
\* store, <<document id, index>> for the chunk id f"{document_id}_{index}";
\* files: the stored source files, by the id of the upload that saved them;
\* sizes: the number of chunks the text of each uploaded file splits into;
\* uploads: uploads so far
PENDING == "pending"
PROCESSING == "processing"
COMPLETED == "completed"
FAILED == "failed"

\* num_chunks of a record that has none
NoCount == 0

\* a record as DocumentRepository.create leaves it
DocumentRow(status) == [status |-> status, num_chunks |-> NoCount, error_message |-> None]

EmptyStore ==
    [documents |-> [i \in {} |-> PENDING], chunks |-> {}, files |-> {}, sizes |-> <<>>,
     uploads |-> 0]

\* a step of call s was taken while the other calls in flight were suspended
Overtaken(s) ==
    [t \in DOMAIN calls |->
        IF t # s /\ calls[t].frame.pc = "await_generate"
        THEN [calls[t] EXCEPT !.alone = FALSE] ELSE calls[t]]

-----------------------------------------------------------------------------
(* The core called directly: extract_unsummarized and build_context *)

NoExtract == [pc |-> "idle"]

Init ==
    /\ cm \in Configs
    /\ settings \in [MESSAGE_OVERHEAD_TOKENS : 0..MaxOverhead]
    /\ llm \in [system_prompt : SystemPrompts, summarizer_prompt : {<<"S",":">>}]
    /\ call = IdleCall
    /\ ext = NoExtract
    /\ db = EmptyDb
    /\ turn = IdleTurn
    /\ handed = {}
    /\ calls = IdleCalls
    /\ est = NoEstimate
    /\ req = NoRequest
    /\ docs = EmptyStore
    /\ gen = NoGenerate

ExtractUnsummarized ==
    /\ call.pc = "idle" /\ ext.pc = "idle"
    /\ \E h \in Histories, p \in Pointers :
          ext' = [pc |-> "returned", all_messages |-> StoredMessages(h), summary_up_to_id |-> p,
                  result |-> extract_unsummarized(StoredMessages(h), p)]
    /\ UNCHANGED <<cm, settings, llm, call, chatVars, auxVars>>

BuildContext ==
    /\ call.pc = "idle" /\ ext.pc = "idle"
    /\ \E h \in Histories, nm \in NewMessages, s \in Summaries, r \in RagContexts :
          call' = StartBuildContext(cm, settings, llm,
                                    [messages |-> h, message_ids |-> IdsOf(Len(h))], nm, s, r)
    /\ UNCHANGED <<cm, settings, llm, ext, chatVars, auxVars>>

\* llm.generate returns: new_summary = response.content.strip()
GenerateReturns ==
    /\ call.pc = "await_generate"
    /\ \E text \in LLMTexts :
          call' = FinishReduce(cm, settings, llm, call, Strip(text), FALSE)
    /\ UNCHANGED <<cm, settings, llm, ext, chatVars, auxVars>>

\* llm.generate raises (LLMError, timeout, ...): the except branch
GenerateRaises ==
    /\ call.pc = "await_generate"
    /\ call' = FinishReduce(cm, settings, llm, call,
                            FallbackSummary(call.to_summarize, call.current_summary), TRUE)
    /\ UNCHANGED <<cm, settings, llm, ext, chatVars, auxVars>>

\* the caller has taken the value or the exception: the frame is gone
Complete ==
    /\ call.pc \in {"returned", "raised"} \/ ext.pc = "returned"
    /\ call' = IdleCall
    /\ ext' = NoExtract
    /\ UNCHANGED <<cm, settings, llm, chatVars, auxVars>>

Next == ExtractUnsummarized \/ BuildContext \/ GenerateReturns \/ GenerateRaises \/ Complete

Spec == Init /\ [][Next]_vars

TypeOK ==
    /\ cm \in Configs
    /\ call.pc \in {"idle", "await_generate", "returned", "raised"}
    /\ call.path \in {"none", "within", "truncate", "summarize"}

-----------------------------------------------------------------------------
(* The chat service: turns processed one after the other *)

MaxSessions == 2      \* sessions ever created
MaxStored == 10       \* messages ever stored
ChatAvailable == 18   \* max_context_tokens - reserved_output of the deployment

ChatContents == {<<"h","i">>, <<"a",NL,"b","c","d","e">>}
ChatReplies == {<<"o","k">>}
Users == {NoUser, 1}

Payloads ==
    [session_id : {NoSession} \cup 1..MaxSessions, user_id : Users, content : ChatContents]

\* init_context_manager: ContextManager(llm_client=llm_client), all defaults
ChatInit ==
    /\ cm = [max_tokens |-> RESERVED_OUTPUT_DEFAULT + ChatAvailable,
             reserved_output |-> RESERVED_OUTPUT_DEFAULT,
             tokens_per_char |-> <<1, 2>>,
             keep_recent |-> KEEP_RECENT_DEFAULT]
    /\ settings = [MESSAGE_OVERHEAD_TOKENS |-> 1]
    /\ llm = [system_prompt |-> <<>>, summarizer_prompt |-> <<"S",":">>]
    /\ call = IdleCall
    /\ ext = NoExtract
    /\ db = EmptyDb
    /\ turn = IdleTurn
    /\ handed = {}
    /\ calls = IdleCalls
    /\ est = NoEstimate
    /\ req = NoRequest
    /\ docs = EmptyStore
    /\ gen = NoGenerate

\* the ids of a batch given to _generate_summary
BatchIds(c) == {c.ids_summarized[i] : i \in 1..Len(c.ids_summarized)}

\* send_message up to its first suspension in the LLM client, or to its raise
SendMessage ==
    /\ turn.pc \in {"idle", "committed", "rolled_back"}
    /\ Len(db.messages) + 2 <= MaxStored
    /\ \E payload \in Payloads :
          LET t0 == [IdleTurn EXCEPT !.payload = payload, !.tx = db, !.db_session = "open"]
          IN IF payload.session_id # NoSession /\ ~sessions_exists(db, payload.session_id)
             THEN /\ turn' = RolledBack(t0, "NotFoundError")
                  /\ UNCHANGED <<call, handed>>
             ELSE /\ payload.session_id = NoSession => Len(db.sessions) < MaxSessions
                  /\ LET opened == IF payload.session_id # NoSession THEN db
                                   ELSE sessions_create(db, payload.user_id, DEFAULT_SESSION_TITLE)
                         sid == IF payload.session_id # NoSession THEN payload.session_id
                                ELSE Len(opened.sessions)
                         session == opened.sessions[sid]
                         stored == messages_create(opened, sid, USER, payload.content)
                         all_msgs == get_by_session(stored, sid)
                         unsummarized == extract_unsummarized(all_msgs, session.summary_up_to_message_id)
                         c == StartBuildContext(cm, settings, llm, unsummarized, payload.content,
                                                session.summary, None)
                         t1 == [t0 EXCEPT !.session_id = sid, !.tx = stored]
                     IN /\ call' = c
                        /\ IF c.pc = "await_generate"
                           THEN /\ turn' = [t1 EXCEPT !.pc = "await_generate"]
                                /\ handed' = handed \cup BatchIds(c)
                           ELSE /\ turn' = TurnAfterContext(t1, c)
                                /\ UNCHANGED handed
    /\ db' = Persisted(db, turn')
    /\ UNCHANGED <<cm, settings, llm, ext, auxVars>>

\* the summarization call returns inside a turn
TurnGenerateReturns ==
    /\ turn.pc = "await_generate"
    /\ \E text \in LLMTexts :
          LET c == FinishReduce(cm, settings, llm, call, Strip(text), FALSE)
          IN /\ call' = c
             /\ turn' = TurnAfterContext(turn, c)
    /\ db' = Persisted(db, turn')
    /\ UNCHANGED <<cm, settings, llm, ext, handed, auxVars>>

\* the summarization call raises inside a turn
TurnGenerateRaises ==
    /\ turn.pc = "await_generate"
    /\ LET c == FinishReduce(cm, settings, llm, call,
                             FallbackSummary(call.to_summarize, call.current_summary), TRUE)
       IN /\ call' = c
          /\ turn' = TurnAfterContext(turn, c)
    /\ db' = Persisted(db, turn')
    /\ UNCHANGED <<cm, settings, llm, ext, handed, auxVars>>

\* llm.chat returns: assistant message, title, commit
ChatReturns ==
    /\ turn.pc = "await_chat"
    /\ \E content \in ChatReplies :
          /\ turn' = TurnAfterChat(turn, content)
          /\ db' = Persisted(db, turn')
    /\ UNCHANGED <<cm, settings, llm, call, ext, handed, auxVars>>

\* llm.chat raises LLMError, a repository call after it raises
\* RepositoryError, or the commit fails with DatabaseError: rollback
ChatRaises ==
    /\ turn.pc = "await_chat"
    /\ \E exc \in {"LLMError", "RepositoryError", "DatabaseError"} :
          turn' = RolledBack(turn, exc)
    /\ db' = Persisted(db, turn')
    /\ UNCHANGED <<cm, settings, llm, call, ext, handed, auxVars>>

ChatNext == SendMessage \/ TurnGenerateReturns \/ TurnGenerateRaises \/ ChatReturns \/ ChatRaises

ChatSpec == ChatInit /\ [][ChatNext]_vars

\* no turn ever persists a summary or a summary pointer
SummaryNeverPersisted ==
    \A i \in DOMAIN db.sessions :
        /\ db.sessions[i].summary = None
        /\ db.sessions[i].summary_up_to_message_id = NoId

\* a turn reaches the summarization call, and it ends rolled back
SummarizationTurnReached ==
    turn.pc = "rolled_back" /\ call.path = "summarize" /\ handed # {}

-----------------------------------------------------------------------------
(* Specification of concurrent calls: sessions 1..MaxConcurrent each have  *)
(* at most one build_context call in flight on the shared ContextManager.  *)

\* histories long enough for the summarization path, differing in what is
\* summarized and in what is kept
ReentHistories ==
    { <<LLMMessage(USER, <<"a","b">>), LLMMessage(USER, <<"a",NL,"b","c","d">>)>>,
      <<LLMMessage(USER, <<"a","b">>), LLMMessage(ASSISTANT, <<>>), LLMMessage(USER, <<"a","b">>)>>,
      <<LLMMessage(USER, <<"a",NL,"b","c","d">>), LLMMessage(ASSISTANT, <<>>),
        LLMMessage(USER, <<"a",NL,"b","c","d">>)>> }
ReentSummaries == {None, <<"s","1">>}
ReentReplies == {<<" ","s","2",NL>>}

ReentInit ==
    /\ cm \in {c \in Configs : c.max_tokens = ReservedOutput + 2 /\ c.keep_recent <= 1}
    /\ settings = [MESSAGE_OVERHEAD_TOKENS |-> 1]
    /\ llm = [system_prompt |-> <<>>, summarizer_prompt |-> <<"S",":">>]
    /\ call = IdleCall
    /\ ext = NoExtract
    /\ db = EmptyDb
    /\ turn = IdleTurn
    /\ handed = {}
    /\ calls = IdleCalls
    /\ est = NoEstimate
    /\ req = NoRequest
    /\ docs = EmptyStore
    /\ gen = NoGenerate

\* build_context is called for session s and runs to its return, its raise
\* or its suspension
CallStarts(s) ==
    /\ calls[s].frame.pc = "idle"
    /\ \E h \in ReentHistories, sm \in ReentSummaries :
          calls' = [Overtaken(s) EXCEPT ![s] =
                       [frame |-> StartBuildContext(cm, settings, llm,
                                      [messages |-> h, message_ids |-> IdsOf(Len(h))],
                                      <<>>, sm, None),
                        reply |-> NoReply, alone |-> TRUE]]
    /\ UNCHANGED <<cm, settings, llm, call, ext, chatVars, est, req, docs, gen>>

\* llm.generate returns to the suspended call of session s
CallGenerateReturns(s) ==
    /\ calls[s].frame.pc = "await_generate"
    /\ \E text \in ReentReplies :
          calls' = [Overtaken(s) EXCEPT ![s].frame =
                       FinishReduce(cm, settings, llm, calls[s].frame, Strip(text), FALSE),
                                       ![s].reply = text]
    /\ UNCHANGED <<cm, settings, llm, call, ext, chatVars, est, req, docs, gen>>

\* llm.generate raises in the suspended call of session s
CallGenerateRaises(s) ==
    /\ calls[s].frame.pc = "await_generate"
    /\ calls' = [Overtaken(s) EXCEPT ![s].frame =
                    FinishReduce(cm, settings, llm, calls[s].frame,
                                 FallbackSummary(calls[s].frame.to_summarize,
                                                 calls[s].frame.current_summary), TRUE),
                                    ![s].reply = FailedReply]
    /\ UNCHANGED <<cm, settings, llm, call, ext, chatVars, est, req, docs, gen>>

\* the caller of session s has taken the value or the exception
CallCompletes(s) ==
    /\ calls[s].frame.pc \in {"returned", "raised"}
    /\ calls' = [Overtaken(s) EXCEPT ![s] = IdleTask]
    /\ UNCHANGED <<cm, settings, llm, call, ext, chatVars, est, req, docs, gen>>

ReentNext ==
    \E s \in 1..MaxConcurrent :
        CallStarts(s) \/ CallGenerateReturns(s) \/ CallGenerateRaises(s) \/ CallCompletes(s)

ReentrantSpec == ReentInit /\ [][ReentNext]_vars

-----------------------------------------------------------------------------
(* Specification of the token estimate: _estimate_tokens called on texts   *)
(* of every length up to MaxTextLen, on managers built with different      *)
(* tokens_per_char; the frame keeps the call before it.                    *)

RECURSIVE TextOfLen(_)
TextOfLen(n) == IF n = 0 THEN <<>> ELSE Append(TextOfLen(n - 1), "x")

EstTexts == {None} \cup {TextOfLen(n) : n \in 0..MaxTextLen}

\* about 4 characters per token, 2, 1, and more than one token per character
EstRatios == {<<1, 4>>, <<1, 2>>, <<1, 1>>, <<3, 2>>}

EstInit ==
    /\ cm \in {[c EXCEPT !.tokens_per_char = r] :
                  c \in {x \in Configs : x.keep_recent = 0 /\ x.max_tokens = ReservedOutput + 2},
                  r \in EstRatios}
    /\ settings = [MESSAGE_OVERHEAD_TOKENS |-> 1]
    /\ llm = [system_prompt |-> <<>>, summarizer_prompt |-> <<"S",":">>]
    /\ call = IdleCall
    /\ ext = NoExtract
    /\ db = EmptyDb
    /\ turn = IdleTurn
    /\ handed = {}
    /\ calls = IdleCalls
    /\ est = NoEstimate
    /\ req = NoRequest
    /\ docs = EmptyStore
    /\ gen = NoGenerate

EstimateTokens ==
    /\ \E text \in EstTexts :
          est' = [pc |-> "returned", text |-> text, tokens |-> _estimate_tokens(cm, text),
                  has_prev |-> est.pc = "returned",
                  prev_text |-> IF est.pc = "returned" THEN est.text ELSE None,
                  prev_tokens |-> IF est.pc = "returned" THEN est.tokens ELSE 0]
    /\ UNCHANGED <<cm, settings, llm, call, ext, chatVars, calls, req, docs, gen>>

EstNext == EstimateTokens

EstSpec == EstInit /\ [][EstNext]_vars

-----------------------------------------------------------------------------
(* Specification of the fallback summary: _generate_summary is called on   *)
(* batches of up to MaxBatch messages while the LLM generate call raises.  *)

MaxBatch == 4         \* messages of a batch given to _generate_summary

\* one more character than the cap of a topic
LongLine == TextOfLen(TOPIC_CAP + 1)

BatchPool ==
    {LLMMessage(USER, <<"a","b">>), LLMMessage(USER, <<"c",NL,"d">>), LLMMessage(USER, LongLine),
     LLMMessage(ASSISTANT, <<"o","k">>), LLMMessage(SYSTEM, <<"s","y">>)}

Batches == SeqsUpTo(BatchPool, MaxBatch)

FallbackInit ==
    /\ cm \in {c \in Configs : c.keep_recent = 0 /\ c.max_tokens = ReservedOutput + 2}
    /\ settings = [MESSAGE_OVERHEAD_TOKENS |-> 1]
    /\ llm = [system_prompt |-> <<>>, summarizer_prompt |-> <<"S",":">>]
    /\ call = IdleCall
    /\ ext = NoExtract
    /\ db = EmptyDb
    /\ turn = IdleTurn
    /\ handed = {}
    /\ calls = IdleCalls
    /\ est = NoEstimate
    /\ req = NoRequest
    /\ docs = EmptyStore
    /\ gen = NoGenerate

\* _generate_summary whose llm.generate raises: the except branch returns
GenerateSummaryFails ==
    /\ gen.pc = "idle"
    /\ \E messages \in Batches, existing \in Summaries :
          gen' = [pc |-> "returned", messages |-> messages, existing |-> existing,
                  result |-> FallbackSummary(messages, existing)]
    /\ UNCHANGED <<cm, settings, llm, call, ext, chatVars, calls, est, req, docs>>

\* the caller takes the summary
GenerateCompletes ==
    /\ gen.pc = "returned"
    /\ gen' = NoGenerate
    /\ UNCHANGED <<cm, settings, llm, call, ext, chatVars, calls, est, req, docs>>

FallbackNext == GenerateSummaryFails \/ GenerateCompletes

FallbackSpec == FallbackInit /\ [][FallbackNext]_vars

-----------------------------------------------------------------------------
(* Specification of session access: chat turns create sessions and         *)
(* messages, and between turns callers read, update and delete sessions    *)
(* and read their history.  With at most MaxSessStored messages no turn    *)
(* reaches the summarization call.                                         *)

SessionIds == 1..MaxSessions
TitleUpdates == [title : {None, <<"t">>}]
Limits == {NoLimit, 1}

SessionInit == ChatInit

\* the request frame a finished operation leaves: what was asked, the
\* database before and after, and the value or exception
Handled(op, user, session_id, r) ==
    [pc |-> "done", op |-> op, user |-> user, session_id |-> session_id,
     before |-> db, after |-> r.db, result |-> r.result]

BetweenTurns == req.pc = "idle" /\ turn.pc \in {"idle", "committed", "rolled_back"}

SessionTurn ==
    /\ req.pc = "idle"
    /\ \/ SendMessage /\ Len(db.messages) + 2 <= MaxSessStored
       \/ ChatReturns
       \/ ChatRaises

GetSession ==
    /\ BetweenTurns
    /\ \E user \in Callers, session_id \in SessionIds :
          LET r == SessionService_get_by_id(db, session_id, user)
          IN /\ req' = Handled("get_session", user, session_id, r)
             /\ db' = r.db
    /\ UNCHANGED <<cm, settings, llm, call, ext, turn, handed, calls, est, docs, gen>>

UpdateSession ==
    /\ BetweenTurns
    /\ \E user \in Callers, session_id \in SessionIds, payload \in TitleUpdates :
          LET r == SessionService_update(db, session_id, user, payload)
          IN /\ req' = Handled("update_session", user, session_id, r)
             /\ db' = r.db
    /\ UNCHANGED <<cm, settings, llm, call, ext, turn, handed, calls, est, docs, gen>>

DeleteSession ==
    /\ BetweenTurns
    /\ \E user \in Callers, session_id \in SessionIds :
          LET r == SessionService_delete(db, session_id, user)
          IN /\ req' = Handled("delete_session", user, session_id, r)
             /\ db' = r.db
    /\ UNCHANGED <<cm, settings, llm, call, ext, turn, handed, calls, est, docs, gen>>

GetSessionHistory ==
    /\ BetweenTurns
    /\ \E user \in Callers, session_id \in SessionIds, limit \in Limits :
          LET r == get_session_history(db, session_id, user, limit)
          IN /\ req' = Handled("get_session_history", user, session_id, r)
             /\ db' = r.db
    /\ UNCHANGED <<cm, settings, llm, call, ext, turn, handed, calls, est, docs, gen>>

\* the response or the error has gone to the caller
RequestCompletes ==
    /\ req.pc = "done"
    /\ req' = NoRequest
    /\ UNCHANGED <<cm, settings, llm, call, ext, chatVars, calls, est, docs, gen>>

SessionNext ==
    SessionTurn \/ GetSession \/ UpdateSession \/ DeleteSession \/ GetSessionHistory
        \/ RequestCompletes

SessionSpec == SessionInit /\ [][SessionNext]_vars

-----------------------------------------------------------------------------
(* Specification of document storage: DocumentService.upload,              *)
(* process_document and delete_document over the document table, the       *)
(* vector store and the file storage.  Only the table is inside the unit   *)
(* of work; the vector store and the file storage are changed at once.     *)
(* Every call to a store can fail, so each step draws its outcome.         *)

DocumentNotFoundError == Raised("DocumentNotFoundError")

document_exists(s, document_id) == document_id \in DOMAIN s.documents

\* the chunks of a document in the vector store
chunks_of(s, document_id) == {c \in s.chunks : c[1] = document_id}

document_delete(s, document_id) ==
    [s EXCEPT !.documents = [i \in (DOMAIN @) \ {document_id} |-> @[i]]]

\* delete_document: a failure to delete the chunks or the file is logged and
\* the deletion goes on; a failure to delete the row rolls the table back
delete_document(s, document_id, chunks_ok, file_ok, row_ok) ==
    IF ~document_exists(s, document_id)
    THEN [store |-> s, result |-> DocumentNotFoundError]
    ELSE LET no_chunks == IF chunks_ok THEN [s EXCEPT !.chunks = @ \ chunks_of(s, document_id)] ELSE s
             no_file == IF file_ok THEN [no_chunks EXCEPT !.files = @ \ {document_id}]
                        ELSE no_chunks
         IN IF ~row_ok THEN [store |-> no_file, result |-> Raised("RepositoryError")]
            ELSE [store |-> document_delete(no_file, document_id),
                  result |-> [kind |-> "bool", value |-> TRUE]]

\* str(e) of the exception the except branch of process_document caught
ErrorText == <<"e","r","r">>

\* update_status: status always, error_message and num_chunks when given
update_status(s, document_id, status, error_message, num_chunks) ==
    [s EXCEPT !.documents[document_id] =
        [status |-> status,
         num_chunks |-> IF num_chunks # NoCount THEN num_chunks ELSE @.num_chunks,
         error_message |-> IF error_message # None THEN error_message ELSE @.error_message]]

DocumentResponse(s, document_id) ==
    [kind |-> "DocumentResponse", status |-> s.documents[document_id].status,
     num_chunks |-> s.documents[document_id].num_chunks,
     error_message |-> s.documents[document_id].error_message]

MaxChunks == 2        \* chunks a file is split into

ProcessFailures == {"none", "start", "extract", "embed", "add", "status", "metadata", "handler"}

DocInit == ChatInit

\* upload: the file is saved, then the record is created as pending
Upload ==
    /\ req.pc = "idle"
    /\ docs.uploads < MaxUploads
    /\ \E saved \in BOOLEAN, created \in BOOLEAN, n \in 0..MaxChunks :
          LET id == docs.uploads + 1
              counted == [docs EXCEPT !.uploads = id, !.sizes = Append(@, n)]
              stored == [counted EXCEPT !.files = @ \cup {id}]
          IN docs' = IF ~saved THEN counted
                     ELSE IF ~created THEN stored
                     ELSE [stored EXCEPT !.documents =
                              [i \in (DOMAIN @) \cup {id} |->
                                  IF i = id THEN DocumentRow(PENDING) ELSE @[i]]]
    /\ UNCHANGED <<cm, settings, llm, call, ext, chatVars, calls, est, req, gen>>

\* process_document: the outcome of a call to a collaborator is drawn by the
\* caller of this operator.  fails names the first step that raises: "start" the update to PROCESSING,
\* "extract" the chunking, "embed" the embedding, "add" the vector store,
\* "status" the update to COMPLETED, "metadata" a step after it, "handler" the
\* update to FAILED of the except branch after a failed update to COMPLETED.
\* An exception that leaves the method rolls the table back; the vector store
\* is outside the transaction.
process_document(s, document_id, fails) ==
    IF ~document_exists(s, document_id)
    THEN [store |-> s, result |-> DocumentNotFoundError]
    ELSE IF s.documents[document_id].status # PENDING
    THEN [store |-> s, result |-> DocumentResponse(s, document_id)]
    ELSE IF fails = "start"
    THEN [store |-> s, result |-> Raised("RepositoryError")]
    ELSE LET n == s.sizes[document_id]
             processing == update_status(s, document_id, PROCESSING, None, NoCount)
             added == n > 0 /\ fails \notin {"extract", "embed", "add"}
             with_chunks == IF added
                            THEN [processing EXCEPT
                                     !.chunks = @ \cup {<<document_id, k>> : k \in 0..(n - 1)}]
                            ELSE processing
             completed == update_status(with_chunks, document_id, COMPLETED, None, n)
             failed == update_status(IF added /\ fails = "metadata" THEN completed ELSE with_chunks,
                                     document_id, FAILED, ErrorText, NoCount)
         IN IF added /\ fails = "none"
            THEN [store |-> completed, result |-> DocumentResponse(completed, document_id)]
            ELSE IF added /\ fails = "handler"
            THEN [store |-> [s EXCEPT !.chunks = with_chunks.chunks],
                  result |-> Raised("RepositoryError")]
            ELSE [store |-> failed, result |-> DocumentResponse(failed, document_id)]

\* process_document_task: the background task processes one document
ProcessDocument ==
    /\ req.pc = "idle"
    /\ \E document_id \in 1..MaxUploads, fails \in ProcessFailures :
          LET r == process_document(docs, document_id, fails)
          IN /\ docs' = r.store
             /\ req' = [pc |-> "done", op |-> "process_document", document_id |-> document_id,
                        before |-> docs, result |-> r.result]
    /\ UNCHANGED <<cm, settings, llm, call, ext, chatVars, calls, est, gen>>

DeleteDocument ==
    /\ req.pc = "idle"
    /\ \E document_id \in 1..MaxUploads, chunks_ok \in BOOLEAN, file_ok \in BOOLEAN,
          row_ok \in BOOLEAN :
          LET r == delete_document(docs, document_id, chunks_ok, file_ok, row_ok)
          IN /\ docs' = r.store
             /\ req' = [pc |-> "done", op |-> "delete_document", document_id |-> document_id,
                        before |-> docs, result |-> r.result]
    /\ UNCHANGED <<cm, settings, llm, call, ext, chatVars, calls, est, gen>>

\* the response or the error of the call has gone to the caller
DeleteCompletes ==
    /\ req.pc = "done"
    /\ req' = NoRequest
    /\ UNCHANGED <<cm, settings, llm, call, ext, chatVars, calls, est, docs, gen>>

DocNext == Upload \/ ProcessDocument \/ DeleteDocument \/ DeleteCompletes

DocSpec == DocInit /\ [][DocNext]_vars

-----------------------------------------------------------------------------
(* Properties of the core *)

Done == call.pc \in {"returned", "raised"}

History == call.unsummarized.messages
Ids == call.unsummarized.message_ids

Present(text) == text # None /\ Len(text) > 0

\* the synthetic leading system messages for a summary and a document context
Injected(summary, rag_context) ==
    (IF Present(summary)
     THEN <<[role |-> "system", content |-> SUMMARY_HEADER \o summary]>> ELSE <<>>)
    \o (IF Present(rag_context)
        THEN <<[role |-> "system", content |-> RAG_HEADER \o rag_context]>> ELSE <<>>)

Cost(text) == _estimate_tokens(cm, text) + settings.MESSAGE_OVERHEAD_TOKENS

RECURSIVE HistoryCost(_)
HistoryCost(msgs) ==
    IF Len(msgs) = 0 THEN 0
    ELSE HistoryCost(SubSeq(msgs, 1, Len(msgs) - 1)) + Cost(msgs[Len(msgs)].content)

OptionalCost(text) == IF Present(text) THEN Cost(text) ELSE 0

\* the five component estimates of the inputs of the current call
InputTotal ==
    _estimate_tokens(cm, llm.system_prompt) + OptionalCost(call.current_summary)
        + HistoryCost(History) + Cost(call.new_message) + OptionalCost(call.rag_context)

InputOverBudget == InputTotal > cm.max_tokens - cm.reserved_output

Suffix(s, n) == SubSeq(s, Len(s) - n + 1, Len(s))

\* C1: build_context never ends in an error because of budgeting: every call,
\* over budget or not, ends with a ContextResult and raises nothing.
C1_AlwaysReturnsResult ==
    Done => call.result.kind = "ContextResult"

\* C2: when the LLM generate call fails on the summarization path,
\* build_context still returns a ContextResult with needs_summary_update = true
\* and a non-null new_summary, and does not raise.
C2_FallbackAvailability ==
    (Done /\ call.path = "summarize" /\ call.llm_failed) =>
        /\ call.result.kind = "ContextResult"
        /\ call.result.needs_summary_update
        /\ call.result.new_summary # None

\* C3: on the summarization path the batch given to the summary generator is
\* the history without its last keep_recent messages, and the call returns
\* [summary message] + [document context message] + the last keep_recent
\* messages, with needs_summary_update = true and the generated summary.
C3_SummarizationSplit ==
    (Done /\ call.path = "summarize") =>
        /\ call.to_summarize = SubSeq(History, 1, Len(History) - cm.keep_recent)
        /\ call.result.kind = "ContextResult"
        /\ call.result.messages =
               Injected(call.new_summary, call.rag_context) \o Suffix(History, cm.keep_recent)
        /\ call.result.needs_summary_update
        /\ call.result.new_summary = call.new_summary

\* C4: after a summarization reduction the returned summary_up_to_message_id
\* is the id of the last message of to_summarize; to_summarize and recent are
\* disjoint and together the whole unsummarized history.
C4_CoverageInvariant ==
    (Done /\ call.path = "summarize") =>
        /\ call.to_summarize \o call.recent = History
        /\ Len(call.to_summarize) >= 1
        /\ call.result.kind = "ContextResult"
        /\ call.result.summary_up_to_message_id = Ids[Len(call.to_summarize)]

\* C6: on the truncation path the kept history is the longest suffix of the
\* history whose cost (estimate + overhead per message) fits into
\* available = available_for_input - system prompt - summary - new message -
\* document context; it is empty when the newest message does not fit or
\* available < 0, so the kept history never pushes the total over budget.
C6_TruncationFits ==
    (Done /\ call.path = "truncate") =>
        LET available == (cm.max_tokens - cm.reserved_output)
                             - _estimate_tokens(cm, llm.system_prompt)
                             - OptionalCost(call.current_summary)
                             - Cost(call.new_message)
                             - OptionalCost(call.rag_context)
            n == Len(call.fitted)
        IN /\ call.available = available
           /\ n <= Len(History)
           /\ call.fitted = Suffix(History, n)
           /\ n > 0 => HistoryCost(call.fitted) <= available
           /\ n < Len(History) => HistoryCost(Suffix(History, n + 1)) > available
           /\ available < 0 => n = 0
           /\ n > 0 => InputTotal - HistoryCost(History) + HistoryCost(call.fitted)
                           <= cm.max_tokens - cm.reserved_output

C6_Witness ==
    /\ Done /\ call.path = "truncate"
    /\ Len(call.fitted) > 0
    /\ Len(call.fitted) < Len(History)

\* C7: when the computed budget is not over budget, build_context returns
\* [summary message, if present] + [document context message, if present] +
\* the whole unsummarized history, with needs_summary_update = false,
\* new_summary = null and summary_up_to_message_id = null, without an LLM call.
C7_WithinBudget ==
    (call.pc # "idle" /\ ~InputOverBudget) =>
        /\ call.pc = "returned"
        /\ call.result.kind = "ContextResult"
        /\ call.result.messages = Injected(call.current_summary, call.rag_context) \o History
        /\ call.result.needs_summary_update = FALSE
        /\ call.result.new_summary = None
        /\ call.result.summary_up_to_message_id = NoId
        /\ call.llm_calls = 0

C7_Witness ==
    /\ call.pc = "returned" /\ ~InputOverBudget
    /\ Present(call.current_summary) /\ Present(call.rag_context)
    /\ Len(History) >= 2

\* C8: the result has needs_summary_update = true exactly when the budget is
\* over budget and the history has at least keep_recent + 2 messages; over
\* budget with fewer messages gives needs_summary_update = false.
C8_ReductionDispatch ==
    Done =>
        /\ call.result.kind = "ContextResult"
        /\ call.result.needs_summary_update
               <=> (InputOverBudget /\ Len(History) >= cm.keep_recent + 2)

\* C9: the computed budget has total_used = system prompt + summary + history
\* + new message + document context tokens (tools 0), each component being
\* estimate + overhead (0 for a null or empty summary / document context),
\* and it is over budget exactly when total_used > max_tokens - reserved_output.
C9_BudgetSum ==
    call.pc # "idle" =>
        /\ call.budget.system_prompt_tokens = _estimate_tokens(cm, llm.system_prompt)
        /\ call.budget.history_tokens = HistoryCost(History)
        /\ call.budget.new_message_tokens = Cost(call.new_message)
        /\ call.budget.summary_tokens = OptionalCost(call.current_summary)
        /\ call.budget.rag_context_tokens = OptionalCost(call.rag_context)
        /\ call.budget.tools_tokens = 0
        /\ total_used(call.budget) = InputTotal
        /\ is_over_budget(call.budget) <=> InputOverBudget
        /\ (call.path = "within") <=> ~InputOverBudget

C9_Witness ==
    /\ call.pc # "idle"
    /\ call.current_summary = <<>>
    /\ Present(call.rag_context)
    /\ Len(History) >= 2
    /\ InputOverBudget

\* C10: extract_unsummarized returns all messages when the pointer is null and
\* the strict suffix after the message the pointer is on otherwise, in the
\* original order, with message_ids[i] the id of the source of messages[i].
C10_ExtractSuffix ==
    ext.pc = "returned" =>
        LET all == ext.all_messages
            res == ext.result
            At(k) ==
                /\ Len(res.messages) = Len(all) - k
                /\ Len(res.message_ids) = Len(all) - k
                /\ \A i \in 1..(Len(all) - k) :
                      /\ res.messages[i] = [role |-> all[k + i].role, content |-> all[k + i].content]
                      /\ res.message_ids[i] = all[k + i].id
        IN /\ ext.summary_up_to_id = NoId => At(0)
           /\ \A k \in 1..Len(all) : all[k].id = ext.summary_up_to_id => At(k)

C10_Witness ==
    /\ ext.pc = "returned"
    /\ Len(ext.all_messages) >= 3
    /\ ext.all_messages[2].id = ext.summary_up_to_id
    /\ Len(ext.result.messages) = Len(ext.all_messages) - 2

\* C11: when the pointer is set but is the id of no message of the session,
\* extract_unsummarized returns every message and every id, in the original
\* order (the for-else branch only logs); the result is never empty for a
\* non-empty message list.
C11_MissingPointerRecovery ==
    (/\ ext.pc = "returned"
     /\ ext.summary_up_to_id # NoId
     /\ \A k \in 1..Len(ext.all_messages) : ext.all_messages[k].id # ext.summary_up_to_id)
    => /\ Len(ext.result.messages) = Len(ext.all_messages)
       /\ Len(ext.result.message_ids) = Len(ext.all_messages)
       /\ \A i \in 1..Len(ext.all_messages) :
             /\ ext.result.messages[i].role = ext.all_messages[i].role
             /\ ext.result.messages[i].content = ext.all_messages[i].content
             /\ ext.result.message_ids[i] = ext.all_messages[i].id
       /\ (ext.all_messages # <<>> => ext.result.messages # <<>>)

C11_Witness ==
    /\ ext.pc = "returned"
    /\ ext.summary_up_to_id # NoId
    /\ Len(ext.all_messages) >= 2
    /\ \A k \in 1..Len(ext.all_messages) : ext.all_messages[k].id # ext.summary_up_to_id
    /\ Len(ext.result.message_ids) = Len(ext.all_messages)

\* C15: whenever the summarization path is taken and the LLM call fails, the
\* new_summary the fallback produces, for every batch and every existing
\* summary (none included), is a non-empty string.
C15_DegradedSummaryNonEmpty ==
    (Done /\ call.path = "summarize" /\ call.llm_failed)
        => (call.new_summary # None /\ Len(call.new_summary) > 0)

\* len(text), 0 for None
TextLen(text) == IF text = None THEN 0 ELSE Len(text)

C20_TruncationKeepsSummary ==
    (Done /\ call.path = "truncate") =>
        /\ call.result.kind = "ContextResult"
        /\ call.result.messages = Injected(call.current_summary, call.rag_context) \o call.fitted
        /\ \E n \in 0..Len(History) : call.fitted = Suffix(History, n)
        /\ ~call.result.needs_summary_update
        /\ call.result.new_summary = None
        /\ call.result.summary_up_to_message_id = NoId
        /\ call.llm_calls = 0

\* C22: a build_context call invokes the LLM generate operation at most once,
\* and not at all on the within-budget and truncation paths; after the one
\* summarization pass the result is returned with all the recent messages,
\* without any further reduction.
C22_SinglePass ==
    /\ call.llm_calls <= 1
    /\ call.path \in {"within", "truncate"} => call.llm_calls = 0
    /\ (Done /\ call.path = "summarize") =>
           /\ call.result.kind = "ContextResult"
           /\ call.result.messages = Injected(call.new_summary, call.rag_context) \o call.recent

\* C23: on both reduction paths the budget of the result is recomputed after
\* the reduction: its history_tokens is the sum of estimate + overhead over the
\* history messages of the returned list, and its summary_tokens is computed
\* from the summary injected in the returned list.
C23_BudgetRecomputed ==
    (Done /\ call.path \in {"truncate", "summarize"}) =>
        LET kept == IF call.path = "truncate" THEN call.fitted ELSE call.recent
            summary == IF call.path = "truncate" THEN call.current_summary ELSE call.new_summary
        IN /\ call.result.kind = "ContextResult"
           /\ call.result.messages = Injected(summary, call.rag_context) \o kept
           /\ call.result.budget.history_tokens = HistoryCost(kept)
           /\ call.result.budget.summary_tokens = OptionalCost(summary)

\* C25: for every keep_recent >= 0 the batch given to the summary generator is
\* not empty, and a result with needs_summary_update = true carries a non-null
\* new_summary and a non-null summary_up_to_message_id that is the id of a
\* message of the supplied unsummarized history.
C25_SummaryUpdateWellFormed ==
    /\ call.path = "summarize" =>
           /\ call.to_summarize # <<>>
           /\ call.ids_summarized # <<>>
    /\ (Done /\ call.result.kind = "ContextResult" /\ call.result.needs_summary_update) =>
           /\ call.result.new_summary # None
           /\ call.result.summary_up_to_message_id # NoId
           /\ \E i \in DOMAIN Ids : Ids[i] = call.result.summary_up_to_message_id

-----------------------------------------------------------------------------
(* Properties of the chat turn *)

\* the summary state of session i in database d; a session not yet created
\* has the state it is created with
SummaryState(d, i) ==
    IF i \in DOMAIN d.sessions
    THEN <<d.sessions[i].summary, d.sessions[i].summary_up_to_message_id>>
    ELSE <<None, NoId>>

\* C13: a send_message turn changes the persisted summary and
\* summary_up_to_message_id of a session only when build_context returned
\* needs_summary_update = true for that session, and then to exactly the
\* returned new_summary and summary_up_to_message_id; every other step leaves
\* both fields of every session unchanged.
C13_SummaryWrittenOnlyFromCore ==
    [][\A i \in DOMAIN db'.sessions :
          SummaryState(db', i) # SummaryState(db, i) =>
              /\ i = turn.session_id
              /\ call.result.kind = "ContextResult"
              /\ call.result.needs_summary_update
              /\ SummaryState(db', i) =
                     <<call.result.new_summary, call.result.summary_up_to_message_id>>]_vars

\* a later turn of a session commits with a result that asks for no summary
\* update: the title and the messages were written, the summary state was not
C13_Witness ==
    /\ turn.pc = "committed"
    /\ turn.payload.session_id # NoSession
    /\ call.result.kind = "ContextResult"
    /\ ~call.result.needs_summary_update
    /\ count_by_session(db, turn.session_id) >= 4
    /\ db.sessions[turn.session_id].title # DEFAULT_SESSION_TITLE
    /\ SummaryState(db, turn.session_id) = <<None, NoId>>

\* C24: a chat turn is atomic.  A step of a turn that does not end it with a
\* commit leaves the database as it was, so a turn that raises (unknown
\* session, context building, the LLM chat call, a repository error, the
\* commit) persists none of its user message, summary update, assistant
\* message or title; the step that commits adds the user message and the
\* assistant message of the turn together, with the title of a first turn and
\* the summary update the core asked for; and the turn's database session is
\* closed once the turn has ended either way.
C24_TurnAtomic ==
    [][/\ turn'.pc # "committed" => db' = db
       /\ turn'.exc # "none" => turn'.pc = "rolled_back"
       /\ turn'.pc \in {"committed", "rolled_back"} => turn'.db_session = "closed"
       /\ turn'.pc = "committed" =>
              LET sid == turn'.session_id
                  added == SubSeq(db'.messages, Len(db.messages) + 1, Len(db'.messages))
              IN /\ turn'.exc = "none"
                 /\ sessions_exists(db', sid)
                 /\ SubSeq(db'.messages, 1, Len(db.messages)) = db.messages
                 /\ Len(added) = 2
                 /\ added[1].session_id = sid /\ added[1].role = USER
                 /\ added[1].content = turn'.payload.content
                 /\ added[2].session_id = sid /\ added[2].role = ASSISTANT
                 /\ added[2].content \in ChatReplies
                 /\ count_by_session(db', sid) = 2 =>
                        db'.sessions[sid].title = AutoTitle(turn'.payload.content)
                 /\ call.result.needs_summary_update =>
                        SummaryState(db', sid) =
                            <<call.result.new_summary, call.result.summary_up_to_message_id>>]_vars

\* after a committed turn, a later turn of the same session has flushed its
\* user message and is rolled back by a failing chat call: the database holds
\* the first turn's two messages and nothing of the second
C24_Witness ==
    /\ turn.pc = "rolled_back" /\ turn.exc = "LLMError"
    /\ turn.db_session = "closed"
    /\ turn.payload.session_id # NoSession
    /\ count_by_session(turn.tx, turn.session_id) = 3
    /\ count_by_session(db, turn.session_id) = 2

\* the summary pointer of session i in database d
Pointer(d, i) == d.sessions[i].summary_up_to_message_id

\* the place of message id in creation order, 0 for no message
PositionOf(d, id) ==
    IF \E k \in DOMAIN d.messages : d.messages[k].id = id
    THEN CHOOSE k \in DOMAIN d.messages : d.messages[k].id = id
    ELSE 0

\* C26: across the turns of a session the persisted summary pointer never
\* goes from set back to null and never moves to an earlier message, and the
\* summarization of a turn moves the pointer of the turn's session strictly
\* forward.
C26_PointerMonotone ==
    [][/\ \A i \in DOMAIN db.sessions :
              Pointer(db, i) # NoId =>
                  /\ Pointer(db', i) # NoId
                  /\ PositionOf(db', Pointer(db', i)) >= PositionOf(db, Pointer(db, i))
       /\ turn.pc = "await_generate" =>
              /\ turn'.pc = "await_chat"
              /\ Pointer(turn'.tx, turn.session_id) # NoId
              /\ PositionOf(turn'.tx, Pointer(turn'.tx, turn.session_id))
                     > PositionOf(turn.tx, Pointer(turn.tx, turn.session_id))]_vars

\* the stored messages of session i that come after its summary pointer
AfterPointer(d, i) ==
    LET all == get_by_session(d, i)
        at == PositionOf(d, Pointer(d, i))
    IN SelectSeq(all, LAMBDA m : PositionOf(d, m.id) > at)

\* C27: no message is handed to the summary generator in more than one turn,
\* and the unsummarized history a turn extracts is, verbatim and in order,
\* every stored message of the session after its pointer.
C27_NoRepetitionNoLoss ==
    [][/\ (turn'.pc = "await_generate" /\ turn.pc # "await_generate") =>
              BatchIds(call') \cap handed = {}
       /\ (turn'.pc \in {"await_generate", "await_chat"}
              /\ turn.pc \in {"idle", "committed", "rolled_back"}) =>
              LET rest == AfterPointer(turn'.tx, turn'.session_id)
              IN /\ call'.unsummarized.message_ids = [k \in DOMAIN rest |-> rest[k].id]
                 /\ call'.unsummarized.messages =
                        [k \in DOMAIN rest |-> LLMMessage(rest[k].role, rest[k].content)]]_vars

\* C28: in a turn that reaches the LLM chat call, the submitted user message
\* is stored once, as the last message of the session, and the list passed to
\* the LLM is the summary message (if any) followed by the stored messages
\* after the pointer, one element each, so the submitted message is in the
\* list exactly once, as its last element.
C28_NewMessageOnceLast ==
    turn.pc = "await_chat" =>
        LET sid == turn.session_id
            rows == get_by_session(turn.tx, sid)
            rest == AfterPointer(turn.tx, sid)
            ms == turn.chat_messages
        IN /\ Len(rows) = count_by_session(db, sid) + 1
           /\ rows[Len(rows)].role = USER
           /\ rows[Len(rows)].content = turn.payload.content
           /\ rest # <<>> /\ rest[Len(rest)] = rows[Len(rows)]
           /\ ms = Injected(turn.tx.sessions[sid].summary, None)
                       \o [k \in DOMAIN rest |-> LLMMessage(rest[k].role, rest[k].content)]
           /\ ms[Len(ms)] = LLMMessage(USER, turn.payload.content)

\* a later turn of a session reaches the chat call with a message whose text
\* an earlier message of the session already had
C28_Witness ==
    /\ turn.pc = "await_chat"
    /\ Len(turn.chat_messages) >= 3
    /\ turn.chat_messages[1] = turn.chat_messages[Len(turn.chat_messages)]
    /\ call.path = "within"

\* C30: a send_message that names an existing session owned by a user other
\* than the caller (by any user when the caller is anonymous) is rejected with
\* NotFoundError: no message is added to the session, in the transaction or
\* in the database, and no list is built for the LLM.
C30_SendRespectsOwnership ==
    LET sid == turn.payload.session_id
    IN (/\ turn.pc # "idle" /\ sid # NoSession /\ sessions_exists(db, sid)
        /\ db.sessions[sid].user_id # NoUser
        /\ db.sessions[sid].user_id # turn.payload.user_id) =>
           /\ turn.pc = "rolled_back" /\ turn.exc = "NotFoundError"
           /\ turn.chat_messages = <<>>
           /\ count_by_session(turn.tx, sid) = count_by_session(db, sid)

-----------------------------------------------------------------------------
(* Properties of concurrent calls *)

TaskDone(s) == calls[s].frame.pc \in {"returned", "raised"}

SameInputs(s, t) ==
    /\ calls[s].frame.unsummarized = calls[t].frame.unsummarized
    /\ calls[s].frame.new_message = calls[t].frame.new_message
    /\ calls[s].frame.current_summary = calls[t].frame.current_summary
    /\ calls[s].frame.rag_context = calls[t].frame.rag_context
    /\ calls[s].reply = calls[t].reply

-----------------------------------------------------------------------------
(* Properties of session access *)

SessionOps == {"get_session", "update_session", "delete_session", "get_session_history"}

\* the owner of the session a finished request asked for, as it was stored
\* when the request came in
OwnerBefore == req.before.sessions[req.session_id].user_id

AskedExisting == req.pc = "done" /\ sessions_exists(req.before, req.session_id)

\* C17: for a session with an owner, get_session, update, delete and
\* get_session_history succeed only for the caller whose id is the owner's,
\* superusers included; every other caller, anonymous or authenticated, gets
\* NotFoundError and sessions and messages are as before.
C17_OwnerOnly ==
    (AskedExisting /\ req.op \in SessionOps /\ OwnerBefore # NoUser) =>
        /\ req.result.kind # "raise" => (req.user # NoCaller /\ req.user.sub = OwnerBefore)
        /\ (req.user = NoCaller \/ req.user.sub # OwnerBefore) =>
              /\ req.result = NotFoundError
              /\ req.after = req.before
              /\ db = req.before

\* a superuser who is not the owner was refused the deletion of a session
\* that has messages
C17_Witness ==
    /\ AskedExisting /\ req.op = "delete_session"
    /\ OwnerBefore # NoUser
    /\ req.user.is_superuser /\ req.user.sub # OwnerBefore
    /\ count_by_session(req.before, req.session_id) >= 2
    /\ req.result = NotFoundError
    /\ sessions_exists(db, req.session_id)

\* C18: for a session without an owner, get_session and get_session_history
\* succeed for every caller: unauthenticated, regular user and superuser.
C18_AnonymousOpen ==
    (AskedExisting /\ req.op \in {"get_session", "get_session_history"}
        /\ OwnerBefore = NoUser)
    => req.result.kind # "raise"

-----------------------------------------------------------------------------
(* Properties of document storage *)

\* C19: after delete_document returns for an existing document, its record
\* is gone from the table, none of its chunks is in the vector store and its
\* file is gone from storage, whatever the outcome of the single steps; for
\* an unknown document it raises DocumentNotFoundError and nothing changes.
C19_DeleteRemovesAll ==
    (req.pc = "done" /\ req.op = "delete_document") =>
        /\ (document_exists(req.before, req.document_id) /\ req.result.kind # "raise") =>
              /\ ~document_exists(docs, req.document_id)
              /\ chunks_of(docs, req.document_id) = {}
              /\ req.document_id \notin docs.files
        /\ ~document_exists(req.before, req.document_id) =>
              /\ req.result = DocumentNotFoundError
              /\ docs = req.before


\* C29: document status is a one-way state machine.  A process_document call
\* on a document that is not pending changes neither the table nor the vector
\* store; a call on a pending document leaves it pending or makes it completed
\* or failed; and when the call returns, the document is completed with
\* num_chunks the number of its chunks in the vector store, at least 1, or
\* failed with an error message and no chunk in the vector store, never
\* processing.
C29_StatusOneWay ==
    (req.pc = "done" /\ req.op = "process_document"
        /\ document_exists(req.before, req.document_id)) =>
        LET old == req.before.documents[req.document_id]
            new == docs.documents[req.document_id]
            stored == chunks_of(docs, req.document_id)
        IN /\ old.status # PENDING => docs = req.before
           /\ new.status # old.status => old.status = PENDING /\ new.status \in {COMPLETED, FAILED}
           /\ req.result.kind # "raise" =>
                  \/ /\ new.status = COMPLETED
                     /\ new.num_chunks = Cardinality(stored) /\ new.num_chunks >= 1
                  \/ /\ new.status = FAILED
                     /\ new.error_message # None
                     /\ stored = {}

-----------------------------------------------------------------------------
(* Properties of the fallback summary *)

\* the first line of a message, cut to the cap of a topic
Topic(msg) == Slice(FirstLine(msg.content), 0, TOPIC_CAP)

\* the topics of the user-authored messages of a batch, in order
RECURSIVE UserTopics(_)
UserTopics(messages) ==
    IF messages = <<>> THEN <<>>
    ELSE IF Head(messages).role = USER
         THEN <<Topic(Head(messages))>> \o UserTopics(Tail(messages))
         ELSE UserTopics(Tail(messages))

StartsWith(text, head) ==
    Len(head) <= Len(text) /\ SubSeq(text, 1, Len(head)) = head

EndsWith(text, tail) ==
    Len(tail) <= Len(text) /\ SubSeq(text, Len(text) - Len(tail) + 1, Len(text)) = tail

\* C21 as stated: when the generate call fails, the returned summary ends
\* with the capped first lines of every user-authored message of the batch,
\* joined by the separator, and starts with the existing summary when there
\* is one.
C21_FallbackEveryUserTopic ==
    gen.pc = "returned" =>
        /\ EndsWith(gen.result, Join(UserTopics(gen.messages), TOPIC_SEP))
        /\ Truthy(gen.existing) => StartsWith(gen.result, gen.existing)

\* C21 amended: when the generate call fails, the returned summary is the
\* existing summary and " | " when there is one, followed, when the batch has
\* a user-authored message, by "Temas: " and the capped first lines of the
\* first three user-authored messages joined by "; "; later user messages,
\* assistant messages and system messages contribute nothing.
C21_FallbackFirstTopics ==
    gen.pc = "returned" =>
        LET topics == UserTopics(gen.messages)
            head == IF Truthy(gen.existing) THEN gen.existing \o SUMMARY_SEP ELSE <<>>
            body == IF topics = <<>> THEN <<>>
                    ELSE TEMAS \o Join(SubSeq(topics, 1, Min(MAX_TOPICS, Len(topics))), TOPIC_SEP)
        IN gen.result = head \o body

\* a failed call on a batch of more than three user messages, one of them
\* longer than the cap, and one on a batch mixing the roles, both with an
\* existing summary
C21_Witness ==
    /\ gen.pc = "returned"
    /\ Truthy(gen.existing)
    /\ Len(UserTopics(gen.messages)) > MAX_TOPICS
    /\ \E i \in DOMAIN gen.messages : Len(gen.messages[i].content) > TOPIC_CAP

====
